---- MODULE Spec2Model ----
(***************************************************************************)
(* Schema reconciliation of react-native-sqlite-table: the SQLiteTable     *)
(* open chain, reconcileSchema, migrateWithSteps, rebuildPreserveData,     *)
(* createTable and the SchemaRegistry, over one store file.                *)
(***************************************************************************)
EXTENDS Integers, Sequences, FiniteSets, TLC

\* ------------------------------------------------------------------ bounds
MaxVersion == 3
MaxRows == 1
MaxBatch == 2
MaxWaiters == 1
MaxFailures == 2

\* ------------------------------------------------------------ data model
RowId == "row_id"


Range(s) == {s[i] : i \in 1..Len(s)}

\* String.prototype.toLowerCase on the column names the model uses
toLowerCase(s) == IF s = "A" THEN "a" ELSE IF s = "ROW_ID" THEN "row_id" ELSE s

\* normalizeSpec: nullable is true only when declared so; default is optional
ColumnSpec(k) ==
  [nullable |-> k \in {"a", "A", "c"}, hasDefault |-> k = "b"]

\* values stored in a cell
NullValue == <<"null", "", 0>>
DefaultValue(k) == <<"dflt", k, 0>>
UserValue(k, i) == <<"user", k, i>>
IdValue(i) == <<"id", "", i>>

\* a statement batch of n caller-supplied statements
Batch(n) == [i \in 1..n |-> i]
Batches == {Batch(0), Batch(MaxBatch)}

\* --------------------------------------------------------- SQL semantics
\* CREATE TABLE fails on two column names equal up to letter case
DistinctNames(cols) ==
  \A i, j \in 1..Len(cols) : i # j => toLowerCase(cols[i]) # toLowerCase(cols[j])

\* defs of createTable / rebuildPreserveData: the reserved key first
TableDefs(newCols) == <<RowId>> \o newCols

\* the value a column not named in an INSERT receives
FillValue(k) == IF ColumnSpec(k).hasDefault THEN DefaultValue(k) ELSE NullValue

\* copyCols of rebuildPreserveData
CopyColsNone(oldCols, newCols) ==
  SelectSeq(oldCols, LAMBDA c : FALSE)
CopyCols(oldCols, newCols) ==
  SelectSeq(oldCols, LAMBDA c : c # RowId /\ c \in Range(newCols))

\* INSERT INTO tmp (copy) SELECT copy FROM old: one new row per old row, in order
CopiedRow(row, i, copy, newCols) ==
  [k \in Range(TableDefs(newCols)) |->
     IF k = RowId THEN IdValue(i)
     ELSE IF k \in Range(copy) THEN row[k]
     ELSE FillValue(k)]

InsertSelect(oldRows, copy, newCols) ==
  IF Len(copy) = 0 THEN <<>>
  ELSE [i \in 1..Len(oldRows) |-> CopiedRow(oldRows[i], i, copy, newCols)]

\* NOT NULL is violated by a NULL in a column declared without nullable
RowsAccepted(rows, newCols) ==
  \A i \in 1..Len(rows) : \A k \in Range(newCols) :
     rows[i][k] = NullValue => ColumnSpec(k).nullable

RebuildRows(oldCols, oldRows, newCols) ==
  InsertSelect(oldRows, CopyCols(oldCols, newCols), newCols)

\* the statement of the transaction of rebuildPreserveData that follows the
\* CREATE TABLE of the shadow table: the INSERT ... SELECT only with copyCols
AfterCreateShadow(oldCols, newCols) ==
  IF Len(CopyCols(oldCols, newCols)) > 0 THEN "copy" ELSE "drop"

\* the statement t.st of the transaction succeeds on the transaction's view t
StatementSucceeds(t, newCols) ==
  CASE t.st = "create" -> DistinctNames(TableDefs(newCols))
    [] t.st = "copy" -> RowsAccepted(RebuildRows(t.cols, t.rows, newCols), newCols)
    [] t.st = "drop" -> Len(t.cols) > 0
    [] OTHER -> TRUE

\* the transaction's view after the statement t.st: CREATE TABLE of the shadow
\* table, INSERT ... SELECT, DROP TABLE of the original, ALTER TABLE ... RENAME
RebuildStatement(t, newCols) ==
  CASE t.st = "create" ->
         [t EXCEPT !.tmp = TableDefs(newCols), !.tmpRows = <<>>,
                   !.st = AfterCreateShadow(t.cols, newCols)]
    [] t.st = "copy" ->
         [t EXCEPT !.tmpRows = RebuildRows(t.cols, t.rows, newCols), !.st = "drop"]
    [] t.st = "drop" ->
         [t EXCEPT !.cols = <<>>, !.rows = <<>>, !.st = "rename"]
    [] OTHER ->
         [t EXCEPT !.cols = t.tmp, !.rows = t.tmpRows, !.tmp = <<>>,
                   !.tmpRows = <<>>, !.st = "done"]

\* db.transaction commits when the last statement queued in its callback is done
TxCommitsAfterEach(st) == TRUE
TxCommitsAfter(st) == st = "rename"


\* ----------------------------------------------------------- declarations
\* ColumnMapInput: the declared column names, in declaration order
DeclaredSchemas ==
  {<<"a", "b">>, <<"b", "a">>, <<"a", "c">>, <<"A", "b">>, <<"c">>}

\* MigrationStep: a step with every phase, and a step with a transactional batch only
FullStep(v) ==
  [to |-> v, preNoTxn |-> Batch(MaxBatch), txn |-> Batch(MaxBatch),
   postNoTxn |-> Batch(MaxBatch), strategy |-> "rebuild", custom |-> TRUE]
AlterStep(v) ==
  [to |-> v, preNoTxn |-> Batch(0), txn |-> Batch(MaxBatch),
   postNoTxn |-> Batch(0), strategy |-> "alter", custom |-> FALSE]

\* migrationSteps: none, a step for every version, or steps with the first versions missing
DeclaredStepVersions == {1..MaxVersion, 2..MaxVersion, {MaxVersion}}
StepLists ==
  {{}} \cup {{FullStep(v) : v \in S} : S \in DeclaredStepVersions}
       \cup {{AlterStep(v) : v \in S} : S \in DeclaredStepVersions}

\* DDLOption
Plans ==
  {p \in [version : 1..MaxVersion, beforeCreateNoTxn : Batches,
          afterCreateTxn : Batches, afterCreateNoTxn : Batches,
          onEveryOpen : Batches, migrationSteps : StepLists] :
     /\ p.onEveryOpen = p.beforeCreateNoTxn
     /\ Len(p.afterCreateNoTxn) > 0 => Len(p.afterCreateTxn) > 0
     /\ Len(p.beforeCreateNoTxn) > 0 => Len(p.afterCreateNoTxn) > 0}

\* ddlOption undefined
NoPlan ==
  [version |-> 0, beforeCreateNoTxn |-> Batch(0), afterCreateTxn |-> Batch(0),
   afterCreateNoTxn |-> Batch(0), onEveryOpen |-> Batch(0), migrationSteps |-> {}]

\* tables created outside the library, before version tracking
LegacyLayouts == {<<"a", "b">>}

LegacyRows(cols, n) ==
  [i \in 1..n |-> [k \in Range(cols) |-> UserValue(k, i)]]

\* ------------------------------------------------------------------ state
VARIABLES
  tblCols,      \* PRAGMA table_info of the table: its column names, <<>> when absent
  tblRows,      \* the rows of the table, in rowid order
  tmpCols,      \* the columns of a shadow table <table>__new_..., <<>> when absent
  regVersion,   \* the version stored in __sp_schema for the table, 0 without an entry
  regMeta,      \* __sp_schema and its index exist
  regOther,     \* the version stored in __sp_schema for another table of the
                \* file, 0 without an entry
  columns,      \* SQLiteTable.columns
  ddlOption,    \* SQLiteTable.ddlOption, NoPlan when undefined
  db,           \* SQLiteTable.db is set
  opening,      \* SQLiteTable.opening is set
  pc,           \* position of the open chain
  idx,          \* next statement of the batch the chain is running
  current,      \* reconcileSchema: current
  legacyCols,   \* reconcileSchema: legacyCols
  cur,          \* migrateWithSteps: cur
  log,          \* what this pass has committed to the store, in order
  failedAt,     \* the phase whose failure rejected the chain
  tx,           \* the open transaction of rebuildPreserveData: its view of the store
  stepBase,     \* the table as it was when the Migration Runner began the version
                \* it is working on
  waiters,      \* open() calls awaiting this.opening
  lastReturn,   \* how the latest open() call returned: "resolved" or "rejected"
                \* with the promise it awaited, or with this.db at once, the
                \* chain being "preparing", "reconciling", "afterReject", "resolved"
  rowIssued,    \* the state of the chain when the latest row statement was issued
  other,        \* a second SQLiteTable instance on the same store file: its fields
                \* and the position of its chain while the first one is running
  running,      \* which of the two instances the variables above describe
  lastWriter,   \* the instance whose statement was the last to change the store
  conn,         \* the connection openDatabase gave the instance is open
  closeState,   \* the latest close() call: "pending" while it awaits the driver,
                \* "resolved" once it has returned; "pendingOpened" and "none"
                \* when open() has been called since
  orphan,       \* the chain of an earlier open() of the instance is still settling
  budget        \* how many more times a statement may fail, Unlimited when
                \* failures are not counted

store == <<tblCols, tblRows, tmpCols, regVersion, regMeta, regOther>>
instance == <<columns, ddlOption, db, opening>>
chain == <<pc, idx, current, legacyCols, cur, log, failedAt, tx, stepBase>>
callers == <<waiters, lastReturn, rowIssued>>
peers == <<other, running, lastWriter>>
link == <<conn, closeState, orphan, budget>>
vars == <<store, instance, chain, callers, peers, link>>

NoFail == [ph |-> "none", v |-> 0, i |-> 0, st |-> "none"]

\* the Migration Runner is not working on a version
NoBase == [cols |-> <<>>, rows |-> <<>>]

\* no transaction of rebuildPreserveData is open
NoTx == [st |-> "none", cols |-> <<>>, rows |-> <<>>, tmp |-> <<>>, tmpRows |-> <<>>]

\* ---------------------------------------------------- reconcileSchema flow
Target == ddlOption.version
HasStep(v) == \E s \in ddlOption.migrationSteps : s.to = v
\* stepsByTo.get(next)
StepFor(v) == CHOOSE s \in ddlOption.migrationSteps : s.to = v

NoTxnPhases ==
  {"onEveryOpen", "bs_before", "bs_afterNoTxn", "lg_afterNoTxn",
   "fr_afterNoTxn", "st_pre", "st_post"}
TxnPhases == {"bs_afterTxn", "lg_afterTxn", "fr_afterTxn", "st_txn"}
CreatePhases == {"um_create", "bs_create"}
RebuildPhases == {"lg_rebuild", "fr_rebuild", "ms_rebuild", "st_rebuild"}
SetVersionPhases ==
  {"bs_setVersion", "lg_setVersion", "fr_setVersion", "ms_setVersion", "st_setVersion"}
StepPhases ==
  {"st_pre", "st_rebuild", "st_txn", "st_custom", "st_post", "st_setVersion"}
RunnerPhases == StepPhases \cup {"ms_rebuild", "ms_setVersion"}
Settled == {"idle", "resolved", "rejected"}

\* the statements of the batch a phase runs
BatchOf(p, c) ==
  CASE p = "onEveryOpen" -> ddlOption.onEveryOpen
    [] p = "bs_before" -> ddlOption.beforeCreateNoTxn
    [] p \in {"bs_afterTxn", "lg_afterTxn", "fr_afterTxn"} -> ddlOption.afterCreateTxn
    [] p \in {"bs_afterNoTxn", "lg_afterNoTxn", "fr_afterNoTxn"} -> ddlOption.afterCreateNoTxn
    [] p = "st_pre" -> StepFor(c + 1).preNoTxn
    [] p = "st_txn" -> StepFor(c + 1).txn
    [] p = "st_post" -> StepFor(c + 1).postNoTxn
    [] OTHER -> Batch(0)

\* sameLayout of the legacy branch
SameLayoutAnyLength(legacy, newCols) ==
  \A i \in 1..Len(newCols) :
     toLowerCase(newCols[i]) \in {toLowerCase(legacy[j]) : j \in 1..Len(legacy)}
SameLayout(legacy, newCols) ==
  /\ Len(legacy) = Len(newCols)
  /\ \A i \in 1..Len(newCols) :
       toLowerCase(newCols[i]) \in {toLowerCase(legacy[j]) : j \in 1..Len(legacy)}

\* the condition under which the code runs a phase
Runs(p, c) ==
  CASE p \in NoTxnPhases \cup TxnPhases -> Len(BatchOf(p, c)) > 0
    [] p = "st_rebuild" -> StepFor(c + 1).strategy = "rebuild"
    [] p = "st_custom" -> StepFor(c + 1).custom
    [] OTHER -> TRUE

\* the phase that follows phase p of a migration step
StepFollowerWritesEarly(p) ==
  CASE p = "st_pre" -> "st_rebuild"
    [] p = "st_rebuild" -> "st_txn"
    [] p = "st_txn" -> "st_setVersion"
    [] p = "st_custom" -> "st_post"
    [] OTHER -> "st_setVersion"
StepFollower(p) ==
  CASE p = "st_pre" -> "st_rebuild"
    [] p = "st_rebuild" -> "st_txn"
    [] p = "st_txn" -> "st_custom"
    [] p = "st_custom" -> "st_post"
    [] OTHER -> "st_setVersion"

\* the legacy branch with an empty afterCreateNoTxn has no return: control
\* reaches the `current < target` test that follows the version-0 block
LegacyNoReturnResolves == "resolved"
LegacyNoReturn == "dispatch"

\* the phase the code reaches next when it skips or leaves phase p
FollowerOf(p) ==
  CASE p = "onEveryOpen" -> "reconcile"
    [] p = "bs_before" -> "bs_create"
    [] p = "bs_create" -> "bs_afterTxn"
    [] p = "bs_afterTxn" -> "bs_afterNoTxn"
    [] p = "bs_afterNoTxn" -> "bs_setVersion"
    [] p = "lg_rebuild" -> "lg_afterTxn"
    [] p = "lg_afterTxn" -> "lg_afterNoTxn"
    [] p = "lg_afterNoTxn" -> LegacyNoReturn
    [] p = "fr_rebuild" -> "fr_afterTxn"
    [] p = "fr_afterTxn" -> "fr_afterNoTxn"
    [] p = "fr_afterNoTxn" -> "fr_setVersion"
    [] p = "ms_rebuild" -> "ms_setVersion"
    [] p \in StepPhases -> StepFollower(p)
    [] OTHER -> "resolved"

\* the legacy branch returns after its non-transactional batch and version write
AfterRun(p) == IF p = "lg_afterNoTxn" THEN "lg_setVersion" ELSE FollowerOf(p)

\* migrateWithSteps starts at the version reconcileSchema read
RunnerStartZero(read) == 0
RunnerStart(read) == read

\* the guard of the migration branch of reconcileSchema
NeedsMigrationAlways(read) == TRUE
NeedsMigrationUpTo(read) == read <= Target
NeedsMigration(read) == read < Target

\* reconcileSchema without a plan returns before any version bookkeeping
ReconcileEntryManaged == "getVersion"
ReconcileEntry == IF ddlOption = NoPlan THEN "um_getCols" ELSE "getVersion"

\* the branch of reconcileSchema for a plan without migration steps starts
\* with rebuildPreserveData
FullRebuildEntryNoRebuild == "fr_afterTxn"
FullRebuildEntry == "fr_rebuild"

RECURSIVE Goto(_, _, _)
\* the first phase at or after p that runs, with the runner's cur
Goto(p, c, read) ==
  CASE p = "resolved" -> [pc |-> "resolved", cur |-> c]
    [] p = "reconcile" -> [pc |-> ReconcileEntry, cur |-> c]
    [] p = "dispatch" ->
         IF NeedsMigration(read)
         THEN IF ddlOption.migrationSteps # {}
              THEN Goto("loop", RunnerStart(read), read)
              ELSE Goto(FullRebuildEntry, c, read)
         ELSE [pc |-> "resolved", cur |-> c]
    [] p = "loop" ->
         IF c < Target
         THEN IF HasStep(c + 1) THEN Goto("st_pre", c, read)
              ELSE Goto("ms_rebuild", c, read)
         ELSE [pc |-> "resolved", cur |-> c]
    [] OTHER ->
         IF Runs(p, c) THEN [pc |-> p, cur |-> c]
         ELSE Goto(FollowerOf(p), c, read)

\* the branch reconcileSchema takes without a plan, from the columns it found
UnmanagedEntry(legacy) ==
  IF Len(legacy) = 0 THEN [pc |-> "um_create", cur |-> 0]
  ELSE [pc |-> "resolved", cur |-> 0]

\* the branch reconcileSchema takes at version 0, from the columns it found
VersionZeroEntry(legacy, read) ==
  IF Len(legacy) = 0 THEN Goto("bs_before", 0, read)
  ELSE IF ~SameLayout(legacy, columns) THEN [pc |-> "lg_rebuild", cur |-> 0]
  ELSE Goto("lg_afterTxn", 0, read)

\* the version a phase hands to setTableVersion
VersionToWriteNext(p, c) == c + 1
VersionToWriteTarget(p, c) == Target
VersionToWrite(p, c) == IF p \in RunnerPhases THEN c + 1 ELSE Target

Event(p, c, i) == [ph |-> p, v |-> IF p \in RunnerPhases THEN c + 1 ELSE 0, i |-> i]

\* ------------------------------------------------------------------ Init
EmptyStore ==
  /\ tblCols = <<>> /\ tblRows = <<>> /\ tmpCols = <<>>
  /\ regVersion = 0 /\ regMeta = FALSE /\ regOther = 0

LegacyStore ==
  /\ tblCols \in LegacyLayouts
  /\ \E n \in 0..MaxRows : tblRows = LegacyRows(tblCols, n)
  /\ tmpCols = <<>> /\ regVersion = 0 /\ regMeta = FALSE /\ regOther = 0

NoInstance ==
  /\ columns = <<>> /\ ddlOption = NoPlan /\ db = FALSE /\ opening = FALSE

NoChain ==
  /\ pc = "dead" /\ idx = 1 /\ current = 0 /\ legacyCols = <<>> /\ cur = 0
  /\ log = <<>> /\ failedAt = NoFail /\ tx = NoTx /\ stepBase = NoBase

NoCallers == waiters = 0 /\ lastReturn = "none" /\ rowIssued = "none"

\* an instance that has not been constructed
Blank ==
  [columns |-> <<>>, ddlOption |-> NoPlan, db |-> FALSE, opening |-> FALSE,
   pc |-> "dead", idx |-> 1, current |-> 0, legacyCols |-> <<>>, cur |-> 0,
   log |-> <<>>, failedAt |-> NoFail, tx |-> NoTx, stepBase |-> NoBase]

NoPeers == other = Blank /\ running = 1 /\ lastWriter = 0

\* failures are not counted
Unlimited == 0 - 1

NoLink == conn = FALSE /\ closeState = "none" /\ orphan = FALSE /\ budget = Unlimited

\* every failing statement succeeds in the end: statements fail MaxFailures
\* times at most
CountedLink ==
  conn = FALSE /\ closeState = "none" /\ orphan = FALSE /\ budget = MaxFailures

Init ==
  /\ EmptyStore \/ LegacyStore
  /\ NoInstance
  /\ NoChain
  /\ NoCallers
  /\ NoPeers
  /\ NoLink

\* --------------------------------------------------------- the open chain
\* the promise this.opening settles: finally clears this.opening, and every
\* open() call awaiting it returns with its result
Settle(result) ==
  /\ opening' = FALSE
  /\ waiters' = 0
  /\ lastReturn' = IF waiters > 0 THEN result ELSE lastReturn
  /\ UNCHANGED rowIssued

\* a statement or a transaction of the running instance has committed
Commit(e) == log' = Append(log, e) /\ lastWriter' = running

\* the chain moves to the phase g = [pc, cur], the table being cols and rows
AdvanceWith(g, cols, rows) ==
  /\ pc' = g.pc /\ cur' = g.cur /\ idx' = 1
  /\ stepBase' = IF g.pc \notin RunnerPhases THEN NoBase
                 ELSE IF pc \in RunnerPhases \ SetVersionPhases THEN stepBase
                 ELSE [cols |-> cols, rows |-> rows]
  /\ UNCHANGED <<other, running, link>>
  /\ IF g.pc = "resolved" THEN Settle("resolved") ELSE UNCHANGED <<opening, callers>>

Advance(g) == AdvanceWith(g, tblCols, tblRows)

\* a step of the chain throws: the chain rejects, this.db keeps its value
Reject ==
  /\ budget # 0
  /\ budget' = IF budget = Unlimited THEN Unlimited ELSE budget - 1
  /\ pc' = "rejected"
  /\ failedAt' = [ph |-> pc, v |-> Event(pc, cur, idx).v, i |-> idx, st |-> tx.st]
  /\ tx' = NoTx
  /\ Settle("rejected")
  /\ UNCHANGED <<store, columns, ddlOption, db, idx, current, legacyCols, cur, log,
                 stepBase, peers, conn, closeState, orphan>>

\* what an open() call makes of the latest close() call
OpenedAfter(cs) ==
  CASE cs = "pending" -> "pendingOpened"
    [] cs = "resolved" -> "none"
    [] OTHER -> cs

\* open(): no handle and no promise in flight: this.opening is created; the
\* chain of an earlier open() that close() has cut off from the instance goes
\* on settling beside the new one
OpenStart ==
  /\ ~db /\ ~opening
  /\ \/ pc \in Settled /\ UNCHANGED orphan
     \/ /\ pc \notin Settled \cup {"dead", "openDatabase"}
        /\ ~orphan /\ waiters = 0
        /\ orphan' = TRUE
  /\ closeState' = OpenedAfter(closeState)
  /\ opening' = TRUE
  /\ pc' = "openDatabase" /\ idx' = 1 /\ current' = 0 /\ legacyCols' = <<>> /\ cur' = 0
  /\ log' = <<>> /\ failedAt' = NoFail /\ tx' = NoTx /\ stepBase' = NoBase
  /\ UNCHANGED <<store, columns, ddlOption, db, callers, peers, conn, budget>>

\* openDatabase calls back: this.db = db
OpenDatabase ==
  /\ pc = "openDatabase"
  /\ \/ /\ db' = TRUE /\ conn' = TRUE /\ pc' = "ensureMeta"
        /\ UNCHANGED <<store, columns, ddlOption, opening, idx, current, legacyCols,
                       cur, log, failedAt, tx, stepBase, callers, peers, closeState,
                       orphan, budget>>
     \/ Reject

\* ctx.tableName, and the name of another table of the same file
TableName == "t"
OtherTable == "u"

\* the rows of __sp_schema: the version of each table, 0 without a row
Registry ==
  [n \in {TableName, OtherTable} |-> IF n = TableName THEN regVersion ELSE regOther]

\* SELECT version FROM __sp_schema WHERE table_name = ?: 0 without a row
SelectVersion(reg, name) == reg[name]

\* INSERT ... ON CONFLICT(table_name) DO UPDATE: the row of that name only
UpsertEvery(reg, name, v) == [n \in DOMAIN reg |-> v]
Upsert(reg, name, v) == [reg EXCEPT ![name] = v]

\* the version __sp_schema holds for the table after CREATE TABLE IF NOT EXISTS:
\* an existing registry keeps its rows, a new one has none
EnsureMetaRecreates(exists, v) == 0
EnsureMetaRows(exists, v) == IF exists THEN v ELSE 0

\* SchemaRegistry.ensureMeta: the registry table and its version index, both
\* IF NOT EXISTS, in one transaction
EnsureMeta ==
  /\ pc = "ensureMeta"
  /\ \/ /\ regMeta' = TRUE
        /\ regVersion' = EnsureMetaRows(regMeta, regVersion)
        /\ regOther' = EnsureMetaRows(regMeta, regOther)
        /\ Advance(Goto("onEveryOpen", 0, 0))
        /\ UNCHANGED <<tblCols, tblRows, tmpCols, columns, ddlOption, db, current,
                       legacyCols, log, failedAt, tx, lastWriter>>
     \/ Reject

\* runNoTxn on the next statement of a runBatchNoTxn batch
RunNoTxnStatement ==
  /\ pc \in NoTxnPhases
  /\ \/ /\ Commit(Event(pc, cur, idx))
        /\ IF idx < Len(BatchOf(pc, cur))
           THEN idx' = idx + 1
                /\ UNCHANGED <<pc, cur, stepBase, opening, callers, other, running, link>>
           ELSE Advance(Goto(AfterRun(pc), cur, current))
        /\ UNCHANGED <<store, columns, ddlOption, db, current, legacyCols, failedAt, tx>>
     \/ Reject

\* runBatchTxn: every statement of the batch in one transaction
RunBatchTxn ==
  /\ pc \in TxnPhases
  /\ \/ /\ Commit(Event(pc, cur, 0))
        /\ Advance(Goto(AfterRun(pc), cur, current))
        /\ UNCHANGED <<store, columns, ddlOption, db, current, legacyCols, failedAt, tx>>
     \/ Reject

\* step.custom(makeMigrationCtx(ctx, reg))
RunCustom ==
  /\ pc = "st_custom"
  /\ \/ /\ Commit(Event(pc, cur, 0))
        /\ Advance(Goto(AfterRun(pc), cur, current))
        /\ UNCHANGED <<store, columns, ddlOption, db, current, legacyCols, failedAt, tx>>
     \/ Reject

\* SchemaRegistry.getExistingColumns in reconcileSchema
GetExistingColumns ==
  /\ pc \in {"um_getCols", "z_getCols"}
  /\ \/ /\ legacyCols' = tblCols
        /\ Advance(IF pc = "um_getCols" THEN UnmanagedEntry(tblCols)
                   ELSE VersionZeroEntry(tblCols, current))
        /\ UNCHANGED <<store, columns, ddlOption, db, current, log, failedAt, tx,
                       lastWriter>>
     \/ Reject

\* SchemaRegistry.getTableVersion in reconcileSchema
GetTableVersion ==
  /\ pc = "getVersion"
  /\ \/ /\ current' = SelectVersion(Registry, TableName)
        /\ Advance(IF SelectVersion(Registry, TableName) = 0
                   THEN [pc |-> "z_getCols", cur |-> 0]
                   ELSE Goto("dispatch", 0, SelectVersion(Registry, TableName)))
        /\ UNCHANGED <<store, columns, ddlOption, db, legacyCols, log, failedAt, tx,
                       lastWriter>>
     \/ Reject

\* createTable: CREATE TABLE IF NOT EXISTS in a transaction of its own
CreateTable ==
  /\ pc \in CreatePhases
  /\ \/ /\ Len(tblCols) > 0 \/ DistinctNames(TableDefs(columns))
        /\ IF Len(tblCols) = 0
           THEN tblCols' = TableDefs(columns) /\ tblRows' = <<>>
           ELSE UNCHANGED <<tblCols, tblRows>>
        /\ Commit(Event(pc, cur, 0))
        /\ Advance(Goto(AfterRun(pc), cur, current))
        /\ UNCHANGED <<tmpCols, regVersion, regMeta, regOther, columns, ddlOption, db, current,
                       legacyCols, failedAt, tx>>
     \/ Reject

\* rebuildPreserveData: getExistingColumns, then db.transaction with the shadow
\* table, the insert-select, the drop and the rename; a failing statement rolls
\* the transaction back
Rebuild ==
  /\ pc \in RebuildPhases
  /\ \/ /\ tx = NoTx
        /\ tx' = [st |-> "create", cols |-> tblCols, rows |-> tblRows,
                  tmp |-> tmpCols, tmpRows |-> <<>>]
        /\ UNCHANGED <<store, instance, pc, idx, current, legacyCols, cur, log,
                       failedAt, stepBase, callers, peers, link>>
     \/ /\ tx # NoTx
        /\ StatementSucceeds(tx, columns)
        /\ LET t == RebuildStatement(tx, columns) IN
             /\ IF TxCommitsAfter(tx.st)
                THEN tblCols' = t.cols /\ tblRows' = t.rows /\ tmpCols' = t.tmp
                ELSE UNCHANGED <<tblCols, tblRows, tmpCols>>
             /\ IF t.st = "done"
                THEN /\ tx' = NoTx
                     /\ Commit(Event(pc, cur, 0))
                     /\ AdvanceWith(Goto(AfterRun(pc), cur, current), t.cols, t.rows)
                ELSE /\ tx' = t
                     /\ UNCHANGED <<pc, idx, cur, log, stepBase, opening, callers, peers, link>>
        /\ UNCHANGED <<regVersion, regMeta, regOther, columns, ddlOption, db, current,
                       legacyCols, failedAt>>
     \/ Reject

\* SchemaRegistry.setTableVersion: the upsert of the table's entry
SetTableVersion ==
  /\ pc \in SetVersionPhases
  /\ \/ /\ LET reg == Upsert(Registry, TableName, VersionToWrite(pc, cur)) IN
             regVersion' = reg[TableName] /\ regOther' = reg[OtherTable]
        /\ Commit(Event(pc, cur, 0))
        /\ Advance(IF pc \in RunnerPhases THEN Goto("loop", cur + 1, current)
                   ELSE [pc |-> "resolved", cur |-> cur])
        /\ UNCHANGED <<tblCols, tblRows, tmpCols, regMeta, columns, ddlOption, db, current,
                       legacyCols, failedAt, tx>>
     \/ Reject

\* the application process ends (a crash or a normal exit): the instances are gone
Exit ==
  /\ pc # "dead"
  /\ columns' = <<>> /\ ddlOption' = NoPlan /\ db' = FALSE /\ opening' = FALSE
  /\ pc' = "dead" /\ idx' = 1 /\ current' = 0 /\ legacyCols' = <<>> /\ cur' = 0
  /\ log' = <<>> /\ failedAt' = NoFail /\ tx' = NoTx /\ stepBase' = NoBase
  /\ waiters' = 0 /\ lastReturn' = "none" /\ rowIssued' = "none"
  /\ other' = Blank /\ running' = 1 /\ lastWriter' = 0
  /\ conn' = FALSE /\ closeState' = "none" /\ orphan' = FALSE
  /\ UNCHANGED <<store, budget>>

\* the checks of the constructor: no column, or the key row_id among the
\* declared columns
ConstructorThrows(cols) == Len(cols) = 0 \/ RowId \in Range(cols)

\* new SQLiteTable(dbName, tableName, columns, ddlOption), the declaration
\* drawn from the given schemas and options
ConstructFrom(schemas, options) ==
  /\ pc = "dead"
  /\ \E cols \in schemas, opt \in options :
       /\ ~ConstructorThrows(cols)
       /\ columns' = cols
       /\ ddlOption' = opt
  /\ pc' = "idle"
  /\ failedAt' = NoFail
  /\ UNCHANGED <<store, db, opening, idx, current, legacyCols, cur, log,
                 tx, stepBase, callers, peers, link>>

Construct == ConstructFrom(DeclaredSchemas, Plans \cup {NoPlan})

ChainStep ==
  \/ OpenDatabase \/ EnsureMeta \/ RunNoTxnStatement \/ RunBatchTxn \/ RunCustom
  \/ GetExistingColumns \/ GetTableVersion \/ CreateTable \/ Rebuild
  \/ SetTableVersion

Next == Construct \/ OpenStart \/ ChainStep \/ Exit

Spec == Init /\ [][Next]_vars


\* ------------------------------------------------- calls on the instance
\* how an open() or CRUD call finds the chain when this.db is set
ChainState ==
  IF pc = "resolved" THEN "resolved"
  ELSE IF pc = "rejected" THEN "afterReject"
  ELSE IF pc \in {"ensureMeta", "onEveryOpen"} THEN "preparing"
  ELSE "reconciling"

\* open() while the instance exists and a chain has been started:
\* this.db set: it is returned at once; else this.opening is awaited
OpenCall ==
  /\ pc \notin {"dead", "idle"}
  /\ \/ /\ db
        /\ lastReturn' = ChainState
        /\ UNCHANGED <<waiters, rowIssued>>
     \/ /\ ~db /\ opening /\ waiters < MaxWaiters
        /\ waiters' = waiters + 1
        /\ UNCHANGED <<lastReturn, rowIssued>>
  /\ closeState' = OpenedAfter(closeState)
  /\ UNCHANGED <<store, instance, chain, peers, conn, orphan, budget>>

\* the row an INSERT of every declared column adds to the table
InsertedRow(n) ==
  [c \in Range(tblCols) |->
     IF c = RowId THEN IdValue(n)
     ELSE IF toLowerCase(c) \in {toLowerCase(k) : k \in Range(columns)}
          THEN UserValue(c, n)
          ELSE NullValue]

\* the table has every column the INSERT names
InsertAccepted ==
  /\ Len(tblCols) > 0
  /\ \A k \in Range(columns) :
       toLowerCase(k) \in {toLowerCase(c) : c \in Range(tblCols)}

\* insertMany(rows) once its await of open() has returned this.db: runBatchTxn
\* hands the INSERT statements to the driver
InsertMany ==
  /\ db
  /\ rowIssued' = ChainState
  /\ \/ /\ InsertAccepted /\ Len(tblRows) < MaxRows /\ tx = NoTx
        /\ tblRows' = Append(tblRows, InsertedRow(Len(tblRows) + 1))
     \/ UNCHANGED tblRows
  /\ UNCHANGED <<tblCols, tmpCols, regVersion, regMeta, regOther, instance, chain, waiters,
                 lastReturn, peers, link>>

\* the declarations the interleavings of calls are explored with
CallSchemas == {<<"a", "b">>, <<"a", "c">>}
CallPlans ==
  {p \in Plans :
     /\ Len(p.afterCreateTxn) = Len(p.onEveryOpen)
     /\ p.migrationSteps \in {{}, {FullStep(v) : v \in 1..MaxVersion}}}

ConstructForCalls == ConstructFrom(CallSchemas, CallPlans \cup {NoPlan})

NextOpen ==
  \/ ConstructForCalls \/ OpenStart \/ ChainStep \/ Exit
  \/ OpenCall \/ InsertMany

SpecOpen == Init /\ [][NextOpen]_vars

\* ------------------------------------- two instances on one store file
\* the fields and the chain of the instance that is running
Self ==
  [columns |-> columns, ddlOption |-> ddlOption, db |-> db, opening |-> opening,
   pc |-> pc, idx |-> idx, current |-> current, legacyCols |-> legacyCols,
   cur |-> cur, log |-> log, failedAt |-> failedAt, tx |-> tx,
   stepBase |-> stepBase]

\* the event loop runs a continuation of the other instance; the statements of
\* a db.transaction are not interleaved with another instance's
Switch ==
  /\ tx = NoTx
  /\ other' = Self
  /\ running' = 3 - running
  /\ columns' = other.columns /\ ddlOption' = other.ddlOption
  /\ db' = other.db /\ opening' = other.opening
  /\ pc' = other.pc /\ idx' = other.idx /\ current' = other.current
  /\ legacyCols' = other.legacyCols /\ cur' = other.cur /\ log' = other.log
  /\ failedAt' = other.failedAt /\ tx' = other.tx /\ stepBase' = other.stepBase
  /\ UNCHANGED <<store, callers, lastWriter, link>>

\* the declarations two instances are explored with
PeerSchemas == {<<"a", "c">>}
PeerPlans ==
  {p \in Plans :
     /\ p.version <= 2
     /\ Len(p.afterCreateTxn) = 0
     /\ p.migrationSteps \in {{}, {FullStep(v) : v \in 1..MaxVersion}}}

ConstructPeer == ConstructFrom(PeerSchemas, PeerPlans \cup {NoPlan})

NextPeers == ConstructPeer \/ OpenStart \/ ChainStep \/ Switch \/ Exit

SpecPeers == Init /\ [][NextPeers]_vars

\* ------------------------------------------- declarations that are refused
\* column sets an application may hand to the constructor: none, one with the
\* key row_id, one with the key ROW_ID, and a valid one
ConfigSchemas == {<<>>, <<"row_id", "a">>, <<"ROW_ID", "a">>, <<"a", "c">>}

ConfigPlans ==
  {p \in Plans :
     /\ p.version = 1
     /\ Len(p.afterCreateTxn) = Len(p.onEveryOpen)
     /\ p.migrationSteps \in {{}, {FullStep(v) : v \in 1..MaxVersion}}}

ConstructForConfig == ConstructFrom(ConfigSchemas, ConfigPlans \cup {NoPlan})

\* new SQLiteTable(...) throws: there is no instance
ConstructThrow ==
  /\ pc = "dead"
  /\ \E cols \in ConfigSchemas : ConstructorThrows(cols)
  /\ failedAt' = [NoFail EXCEPT !.ph = "constructor"]
  /\ UNCHANGED <<store, instance, pc, idx, current, legacyCols, cur, log, tx,
                 stepBase, callers, peers, link>>

NextConfig == ConstructForConfig \/ ConstructThrow \/ OpenStart \/ ChainStep \/ Exit

SpecConfig == Init /\ [][NextConfig]_vars

\* --------------------------------------- another table in the same registry
\* the version another instance has written for its table
OtherVersions == {2, MaxVersion + 1}

\* a store in which the library already manages another table
SharedStore ==
  /\ tblCols = <<>> /\ tblRows = <<>> /\ tmpCols = <<>>
  /\ regVersion = 0 /\ regMeta = TRUE /\ regOther \in OtherVersions

InitRegistry ==
  /\ EmptyStore \/ LegacyStore \/ SharedStore
  /\ NoInstance
  /\ NoChain
  /\ NoCallers
  /\ NoPeers
  /\ NoLink

\* the instance of the other table writes its version: setTableVersion(u, v)
SetOtherTableVersion ==
  /\ regMeta
  /\ \E v \in OtherVersions :
       LET reg == Upsert(Registry, OtherTable, v) IN
         regVersion' = reg[TableName] /\ regOther' = reg[OtherTable]
  /\ UNCHANGED <<tblCols, tblRows, tmpCols, regMeta, instance, chain, callers, peers,
                 link>>

RegistrySchemas == {<<"a", "c">>}
RegistryPlans ==
  {p \in Plans :
     /\ Len(p.afterCreateTxn) = 0
     /\ p.migrationSteps \in {{}, {FullStep(v) : v \in 1..MaxVersion}}}

ConstructForRegistry == ConstructFrom(RegistrySchemas, RegistryPlans \cup {NoPlan})

NextRegistry ==
  \/ ConstructForRegistry \/ OpenStart \/ ChainStep \/ Exit \/ SetOtherTableVersion

SpecRegistry == InitRegistry /\ [][NextRegistry]_vars

\* ------------------------------------------------- close() on the instance
\* close(): without a handle it returns at once; with one it hands close to the
\* driver and awaits the callback
CloseCall ==
  /\ pc # "dead"
  /\ closeState \notin {"pending", "pendingOpened"}
  /\ closeState' = IF db THEN "pending" ELSE "resolved"
  /\ UNCHANGED <<store, instance, chain, callers, peers, conn, orphan, budget>>

\* what the fields are after the driver's close callback
ClosedFields == [db |-> FALSE, opening |-> FALSE]

\* the driver calls back: the success callback lets close() clear this.db and
\* this.opening; the error callback rejects close() and leaves them
CloseDone ==
  /\ closeState \in {"pending", "pendingOpened"}
  /\ \/ /\ conn' = FALSE
        /\ db' = ClosedFields.db /\ opening' = ClosedFields.opening
        /\ closeState' = IF closeState = "pending" THEN "resolved" ELSE "none"
     \/ /\ closeState' = "none"
        /\ UNCHANGED <<conn, db, opening>>
  /\ UNCHANGED <<store, columns, ddlOption, chain, callers, peers, orphan, budget>>

\* the chain of the earlier open() settles: its finally clears this.opening
OrphanSettle ==
  /\ orphan
  /\ orphan' = FALSE
  /\ opening' = FALSE
  /\ UNCHANGED <<store, columns, ddlOption, db, chain, callers, peers, conn, closeState,
                 budget>>

\* the declarations open() and close() are interleaved with
CloseSchemas == {<<"a", "c">>}
ClosePlans ==
  {p \in Plans :
     /\ p.version = 1
     /\ Len(p.afterCreateTxn) = Len(p.onEveryOpen)
     /\ p.migrationSteps \in {{}, {FullStep(v) : v \in 1..MaxVersion}}}

ConstructForClose == ConstructFrom(CloseSchemas, ClosePlans \cup {NoPlan})

NextClose ==
  \/ ConstructForClose \/ OpenStart \/ ChainStep \/ Exit
  \/ OpenCall \/ CloseCall \/ CloseDone \/ OrphanSettle

SpecClose == Init /\ [][NextClose]_vars

\* ------------------------------------------- fresh opens until convergence
\* a table an earlier release of the application left under the library's
\* management, at any version
ManagedLayouts == {<<RowId, "a", "b">>}

ManagedRows(cols, n) ==
  [i \in 1..n |->
     [k \in Range(cols) |-> IF k = RowId THEN IdValue(i) ELSE UserValue(k, i)]]

ManagedStore ==
  /\ tblCols \in ManagedLayouts
  /\ \E n \in 0..MaxRows : tblRows = ManagedRows(tblCols, n)
  /\ tmpCols = <<>> /\ regVersion \in 1..MaxVersion /\ regMeta = TRUE /\ regOther = 0

InitLive ==
  /\ EmptyStore \/ LegacyStore \/ ManagedStore
  /\ NoInstance
  /\ NoChain
  /\ NoCallers
  /\ NoPeers
  /\ CountedLink

LiveSchemas == {<<"a", "c">>, <<"b", "a">>}
LivePlans ==
  {p \in Plans :
     /\ p.version <= 2
     /\ Len(p.afterCreateTxn) = Len(p.onEveryOpen)
     /\ p.migrationSteps \in {{}, {FullStep(v) : v \in 1..MaxVersion},
                              {AlterStep(v) : v \in 1..MaxVersion},
                              {AlterStep(v) : v \in 2..MaxVersion}}}

ConstructForLive == ConstructFrom(LiveSchemas, LivePlans)

\* the application starts again with the same declaration once the pass has
\* settled: a fresh instance, this.db and this.opening unset
Relaunch ==
  /\ pc \in {"resolved", "rejected"}
  /\ pc' = "idle" /\ db' = FALSE /\ opening' = FALSE
  /\ idx' = 1 /\ current' = 0 /\ legacyCols' = <<>> /\ cur' = 0
  /\ log' = <<>> /\ failedAt' = NoFail /\ tx' = NoTx /\ stepBase' = NoBase
  /\ waiters' = 0 /\ lastReturn' = "none" /\ rowIssued' = "none"
  /\ conn' = FALSE /\ closeState' = "none" /\ orphan' = FALSE
  /\ UNCHANGED <<store, columns, ddlOption, peers, budget>>

NextLive == ConstructForLive \/ OpenStart \/ ChainStep \/ Relaunch

\* the application is constructed and opened, the driver calls back, and a
\* settled pass is followed by a fresh open
LiveFairness ==
  /\ WF_vars(ConstructForLive)
  /\ WF_vars(OpenStart)
  /\ WF_vars(ChainStep)
  /\ WF_vars(Relaunch)

SpecLive == InitLive /\ [][NextLive]_vars /\ LiveFairness

\* ================================================================ claims
RunnerEvent(e) == e.ph \in RunnerPhases

PhaseRank(p) ==
  CASE p = "st_pre" -> 1
    [] p \in {"st_rebuild", "ms_rebuild"} -> 2
    [] p = "st_txn" -> 3
    [] p = "st_custom" -> 4
    [] p = "st_post" -> 5
    [] OTHER -> 6

\* event e comes strictly before event f in the order version, phase, statement
Precedes(e, f) ==
  \/ e.v < f.v
  \/ e.v = f.v /\ PhaseRank(e.ph) < PhaseRank(f.ph)
  \/ e.v = f.v /\ PhaseRank(e.ph) = PhaseRank(f.ph) /\ e.i < f.i

\* the first phase the declaration of step s asks for
FirstPhaseOf(s) ==
  IF Len(s.preNoTxn) > 0 THEN "st_pre"
  ELSE IF s.strategy = "rebuild" THEN "st_rebuild"
  ELSE IF Len(s.txn) > 0 THEN "st_txn"
  ELSE IF s.custom THEN "st_custom"
  ELSE IF Len(s.postNoTxn) > 0 THEN "st_post"
  ELSE "st_setVersion"

\* what the declaration of the step for version v asks to be committed before
\* the version is written
ExpectedEvents(v) ==
  LET s == StepFor(v)
      one(p) == <<[ph |-> p, v |-> v, i |-> 0]>>
  IN [i \in 1..Len(s.preNoTxn) |-> [ph |-> "st_pre", v |-> v, i |-> i]]
     \o (IF s.strategy = "rebuild" THEN one("st_rebuild") ELSE <<>>)
     \o (IF Len(s.txn) > 0 THEN one("st_txn") ELSE <<>>)
     \o (IF s.custom THEN one("st_custom") ELSE <<>>)
     \o [i \in 1..Len(s.postNoTxn) |-> [ph |-> "st_post", v |-> v, i |-> i]]

\* C1: the Migration Runner runs its steps in strictly increasing version order,
\* each from its first phase; while step v runs, and after a phase of step v has
\* failed, the registry holds v-1; a pass never runs a step at or below the
\* version the registry held when the pass read it, so a fresh open resumes at
\* step v.
C1_CrashResume ==
  /\ pc \in RunnerPhases => regVersion = cur /\ cur >= current
  /\ (pc = "rejected" /\ failedAt.ph \in RunnerPhases) => regVersion = failedAt.v - 1
  /\ \A i, j \in 1..Len(log) :
       (i < j /\ RunnerEvent(log[i]) /\ RunnerEvent(log[j])) => Precedes(log[i], log[j])
  /\ \A i \in 1..Len(log) : RunnerEvent(log[i]) => log[i].v > current
  /\ (pc \in StepPhases /\ ~\E i \in 1..Len(log) : log[i].v = cur + 1)
       => pc = FirstPhaseOf(StepFor(cur + 1))

\* C1 witness: registry 1, target 3, steps for 2 and 3: step 2 committed, the
\* transactional batch of step 3 failed, the registry holds 2.
C1_Witness ==
  /\ pc = "rejected" /\ failedAt.ph = "st_txn" /\ failedAt.v = 3
  /\ current = 1 /\ Target = 3 /\ regVersion = 2
  /\ \E i \in 1..Len(log) : log[i].ph = "st_setVersion" /\ log[i].v = 2

\* C5: no step of any pass lowers the registry version of the table.
C5_VersionMonotonic == [][regVersion' >= regVersion]_vars

\* C5 witness: a pass wrote a version above the positive one it had read.
C5_Witness ==
  /\ current > 0 /\ regVersion > current
  /\ \E i \in 1..Len(log) : log[i].ph \in SetVersionPhases

\* C6: the version of a declared step is written only when every phase the step
\* declares has been committed, in order, right before the write; while a step
\* is running or has failed the registry is below that step's version.
C6_VersionAfterAllPhases ==
  /\ \A k \in 1..Len(log) :
       log[k].ph = "st_setVersion" =>
         LET E == ExpectedEvents(log[k].v) IN
         /\ k > Len(E)
         /\ SubSeq(log, k - Len(E), k - 1) = E
  /\ pc \in StepPhases => regVersion < cur + 1
  /\ (pc = "rejected" /\ failedAt.ph \in StepPhases) => regVersion < failedAt.v

\* C6 witness: the version of a step with every phase has been written.
C6_Witness ==
  \E k \in 1..Len(log) :
    /\ log[k].ph = "st_setVersion" /\ regVersion = log[k].v
    /\ StepFor(log[k].v).custom /\ StepFor(log[k].v).strategy = "rebuild"

BootstrapPhases ==
  {"bs_before", "bs_create", "bs_afterTxn", "bs_afterNoTxn", "bs_setVersion"}

\* C7: with a plan, registry version 0 and no table, a pass that resolves has
\* created the table as reserved key plus declared columns and left the registry
\* at the plan's target; while bootstrap runs, and when one of its phases fails,
\* the registry stays 0.
C7_FreshBootstrap ==
  /\ (pc = "resolved" /\ ddlOption # NoPlan /\ current = 0 /\ legacyCols = <<>>)
       => /\ tblCols = <<RowId>> \o columns
          /\ regVersion = Target
  /\ pc \in BootstrapPhases => regVersion = 0
  /\ (pc = "rejected" /\ failedAt.ph \in BootstrapPhases) => regVersion = 0

\* C7 witness: a bootstrap to a target above 1 resolved.
C7_Witness ==
  /\ pc = "resolved" /\ ddlOption # NoPlan /\ current = 0 /\ legacyCols = <<>>
  /\ Target > 1 /\ regVersion = Target
  /\ \E i \in 1..Len(log) : log[i].ph = "bs_create"

\* C8: without a plan no step of a pass writes the registry version or changes
\* an existing table; a pass that found no table resolves with the table
\* created as reserved key plus declared columns and registry version 0.
C8_Unmanaged ==
  [][(ddlOption = NoPlan /\ pc \notin {"dead", "idle"} /\ pc' # "dead")
       => /\ regVersion' = regVersion
          /\ Len(tblCols) > 0 => (tblCols' = tblCols /\ tblRows' = tblRows)
          /\ (pc' = "resolved" /\ legacyCols' = <<>> /\ pc # "resolved")
               => (tblCols' = <<RowId>> \o columns /\ tblRows' = <<>> /\ regVersion' = 0)
    ]_vars

\* C8 witness: an open without a plan resolved on a table this library created
\* for another declaration.
C8_Witness ==
  /\ ddlOption = NoPlan /\ pc = "resolved" /\ Len(legacyCols) > 0
  /\ tblCols[1] = RowId /\ tblCols # <<RowId>> \o columns
  /\ Len(tblRows) > 0


\* a step in which the transaction of rebuildPreserveData commits
RebuildCommitted == pc \in RebuildPhases /\ Len(log') = Len(log) + 1

\* the old physical layout L without the reserved key, and the declared schema D
OldLayout == Range(tblCols) \ {RowId}
Declared == Range(columns)

\* the table after a rebuild has the reserved key and the declared columns only,
\* and every column that is new holds its declared default, or NULL
RebuiltToDeclaration ==
  /\ Range(tblCols') = Declared \cup {RowId}
  /\ \A i \in 1..Len(tblRows') : \A k \in Declared \ OldLayout :
       tblRows'[i][k] = IF ColumnSpec(k).hasDefault THEN DefaultValue(k) ELSE NullValue

\* every row is still there, with its values of the columns in both L and D
RowsKept ==
  /\ Len(tblRows') = Len(tblRows)
  /\ \A i \in 1..Len(tblRows) : \A k \in OldLayout \cap Declared :
       tblRows'[i][k] = tblRows[i][k]

\* C9 as stated: after a successful rebuild the row count is unchanged, every
\* row keeps its values of the columns in L \cap D, the columns only in L are
\* gone and the columns only in D hold their default or NULL.
C9_AsStated == [][RebuildCommitted => (RowsKept /\ RebuiltToDeclaration)]_vars

\* C9 amended: the same when L \cap D is not empty; when L and D share no
\* column the rebuild copies no row and the rebuilt table is empty.
C9_RebuildPreserves ==
  [][RebuildCommitted =>
       /\ RebuiltToDeclaration
       /\ IF OldLayout \cap Declared # {} THEN RowsKept ELSE tblRows' = <<>>
    ]_vars

\* C9 witness: the legacy table (a, b) with a row was rebuilt to (a, c): a is
\* kept, b is gone, c is NULL.
C9_Witness ==
  /\ Len(log) > 0 /\ log[Len(log)].ph = "lg_rebuild"
  /\ legacyCols = <<"a", "b">> /\ tblCols = <<RowId, "a", "c">>
  /\ Len(tblRows) = 1
  /\ tblRows[1]["a"] = UserValue("a", 1) /\ tblRows[1]["c"] = NullValue

\* C10: a successful rebuild keeps every row's value of a column whose name is
\* in the old layout and in the declared schema up to letter case.
C10_CaseInsensitiveCopy ==
  [][RebuildCommitted =>
       \A c \in OldLayout : \A d \in Declared :
          toLowerCase(c) = toLowerCase(d) =>
            /\ Len(tblRows') = Len(tblRows)
            /\ \A i \in 1..Len(tblRows) : tblRows'[i][d] = tblRows[i][c]
    ]_vars


\* C2: once the chain of open() has rejected after the connection was opened
\* (ensureMeta, onEveryOpen or reconcileSchema failed) the instance holds no
\* database handle, no later open() returns one and no row statement is issued
\* on it.
C2_NoHandleAfterFailedOpen ==
  /\ (pc = "rejected" /\ failedAt.ph # "openDatabase") => ~db
  /\ lastReturn # "afterReject"
  /\ rowIssued # "afterReject"

\* C3: no row statement is handed to the driver while the chain of open() is
\* still between openDatabase and the end of reconcileSchema.
C3_NoRowStatementDuringReconcile == rowIssued # "reconciling"

\* C4: an open() call made while the open-and-reconcile chain is in flight
\* returns only with the result of that chain, never before it has settled.
C4_OpenAwaitsInFlight == lastReturn \notin {"preparing", "reconciling"}

\* a pass with a plan that read registry version 0 and found a table
LegacyPass ==
  /\ ddlOption # NoPlan /\ current = 0 /\ Len(legacyCols) > 0
  /\ pc \notin Settled \cup {"dead"}

\* the column names the pass found are the declared names, up to letter case
\* and order
SameNameSet ==
  {toLowerCase(c) : c \in Range(legacyCols)} = {toLowerCase(k) : k \in Range(columns)}

\* C11: in a legacy adoption whose existing column-name set equals the declared
\* one, no step invokes the rebuild or changes a row, and the pass resolves
\* with the registry at the target.
C11_LegacySameLayout ==
  [][(LegacyPass /\ SameNameSet /\ pc' # "dead") =>
       /\ pc' \notin RebuildPhases
       /\ tblRows' = tblRows
       /\ pc' = "resolved" => regVersion' = Target
    ]_vars

\* a legacy adoption under a plan whose afterCreateNoTxn is empty has resolved
LegacyResolvedNoAfterNoTxn ==
  /\ pc = "resolved" /\ ddlOption # NoPlan /\ current = 0 /\ Len(legacyCols) > 0
  /\ Len(ddlOption.afterCreateNoTxn) = 0

\* C12 as stated: in a legacy adoption with an empty afterCreateNoTxn the target
\* version is never persisted: the registry is still 0 when reconcile returns.
C12_AsStated == LegacyResolvedNoAfterNoTxn => regVersion = 0

\* C12 amended: the legacy branch itself writes no version, but the pass goes on
\* into the migration branch with current = 0, which writes the version: when
\* reconcile returns the registry holds the target, written by the full-rebuild
\* branch or by the Migration Runner, so the next open reads a positive version
\* and does not enter legacy adoption.
C12_LegacyVersionPersisted ==
  LegacyResolvedNoAfterNoTxn =>
    /\ regVersion = Target
    /\ ~\E i \in 1..Len(log) : log[i].ph = "lg_setVersion"
    /\ log[Len(log)].ph \in {"fr_setVersion", "st_setVersion", "ms_setVersion"}
    /\ ddlOption.migrationSteps = {} =>
         \E i \in 1..Len(log) : log[i].ph = "fr_rebuild"

\* C12 witness: a legacy adoption of a same-layout table with an empty
\* afterCreateNoTxn and no steps resolved with the target in the registry.
C12_Witness ==
  /\ LegacyResolvedNoAfterNoTxn /\ SameNameSet
  /\ ddlOption.migrationSteps = {} /\ regVersion = Target /\ Target > 1

\* C13: under a plan, at registry version 0, when the column names found differ
\* from the declared ones the pass goes to the rebuild; that rebuild leaves the
\* reserved key and the declared columns, each row keeping its values of the
\* columns in both layouts and nothing of the others; a pass that resolves has
\* rebuilt and the table has the declared columns.
C13_LegacyDifferentLayout ==
  [][/\ ( /\ pc = "z_getCols" /\ pc' \notin {"rejected", "dead"}
          /\ Len(tblCols) > 0
          /\ {toLowerCase(c) : c \in Range(tblCols)}
               # {toLowerCase(k) : k \in Range(columns)} )
          => pc' = "lg_rebuild"
     /\ (pc = "lg_rebuild" /\ RebuildCommitted)
          => /\ tblCols' = <<RowId>> \o columns
             /\ RebuiltToDeclaration
             /\ \A i \in 1..Len(tblRows') : \A k \in OldLayout \cap Declared :
                  tblRows'[i][k] = tblRows[i][k]
     /\ (LegacyPass /\ ~SameNameSet /\ pc' = "resolved")
          => /\ tblCols' = <<RowId>> \o columns
             /\ \E i \in 1..Len(log') : log'[i].ph = "lg_rebuild"
    ]_vars

\* C13 witness: the legacy table (a, b) with a row, adopted under a plan that
\* declares (a, c): the pass resolved, the row keeps a and has no b.
C13_Witness ==
  /\ pc = "resolved" /\ ddlOption # NoPlan /\ current = 0
  /\ legacyCols = <<"a", "b">> /\ columns = <<"a", "c">>
  /\ tblCols = <<RowId, "a", "c">> /\ regVersion = Target
  /\ Len(tblRows) = 1 /\ tblRows[1]["a"] = UserValue("a", 1)
  /\ "b" \notin DOMAIN tblRows[1]

\* the versions above the one the pass read, up to the target, without a step
MissingSteps == {v \in (current + 1)..Target : ~HasStep(v)}

\* C14: the Migration Runner rebuilds for a version v without a declared step
\* and writes v right after that rebuild, before anything of version v+1; the
\* registry holds v-1 until that write and v after it; a pass that resolves
\* from a positive version below the target has done so for every such v and
\* the registry holds the target.
C14_MissingStepFallback ==
  /\ pc \in {"ms_rebuild", "ms_setVersion"} =>
       /\ ddlOption.migrationSteps # {} /\ ~HasStep(cur + 1)
       /\ regVersion = cur
  /\ pc = "ms_setVersion" =>
       log[Len(log)] = [ph |-> "ms_rebuild", v |-> cur + 1, i |-> 0]
  /\ \A k \in 1..Len(log) :
       log[k].ph = "ms_setVersion" =>
         /\ k > 1 /\ log[k - 1] = [ph |-> "ms_rebuild", v |-> log[k].v, i |-> 0]
         /\ \A j \in (k + 1)..Len(log) : log[j].v > log[k].v
         /\ k = Len(log) => regVersion = log[k].v
  /\ \A k \in 1..Len(log) :
       log[k].ph = "ms_rebuild" =>
         (k < Len(log) => log[k + 1].ph = "ms_setVersion" /\ log[k + 1].v = log[k].v)
  /\ ( /\ pc = "resolved" /\ ddlOption.migrationSteps # {}
       /\ current > 0 /\ current < Target )
       => /\ regVersion = Target
          /\ \A v \in MissingSteps :
               \E k \in 1..Len(log) : log[k].ph = "ms_setVersion" /\ log[k].v = v

\* C14 witness: registry 1, target 2, a step declared for 3 only: the pass
\* rebuilt, wrote 2 and resolved.
C14_Witness ==
  /\ pc = "resolved" /\ current = 1 /\ Target = 2
  /\ ddlOption.migrationSteps # {} /\ ~HasStep(2)
  /\ regVersion = 2
  /\ Len(log) = 2 /\ log[1].ph = "ms_rebuild" /\ log[2].ph = "ms_setVersion"

FullRebuildPhases == {"fr_rebuild", "fr_afterTxn", "fr_afterNoTxn", "fr_setVersion"}

\* what a pass under a plan without steps commits, in order
FullRebuildEvents ==
  LET one(p) == <<[ph |-> p, v |-> 0, i |-> 0]>>
  IN [i \in 1..Len(ddlOption.onEveryOpen) |-> [ph |-> "onEveryOpen", v |-> 0, i |-> i]]
     \o one("fr_rebuild")
     \o (IF Len(ddlOption.afterCreateTxn) > 0 THEN one("fr_afterTxn") ELSE <<>>)
     \o [i \in 1..Len(ddlOption.afterCreateNoTxn) |->
           [ph |-> "fr_afterNoTxn", v |-> 0, i |-> i]]
     \o one("fr_setVersion")

\* a pass under a plan without steps that read a positive version below target
FullRebuildPass ==
  /\ ddlOption # NoPlan /\ ddlOption.migrationSteps = {}
  /\ current > 0 /\ current < Target
  /\ pc \notin {"dead", "idle", "openDatabase", "ensureMeta", "onEveryOpen", "getVersion"}

\* C15: under a plan without steps, from a positive version below the target, a
\* pass commits one rebuild, the afterCreateTxn batch, the afterCreateNoTxn
\* batch and one version write, in that order and nothing else; the registry
\* holds the old version until that write, which stores the target, and holds
\* the old version when any of these fails.
C15_FullRebuildNoSteps ==
  FullRebuildPass =>
    /\ Len(log) <= Len(FullRebuildEvents)
    /\ log = SubSeq(FullRebuildEvents, 1, Len(log))
    /\ pc = "resolved" => (log = FullRebuildEvents /\ regVersion = Target)
    /\ pc # "resolved" => regVersion = current
    /\ pc = "rejected" => failedAt.ph \in FullRebuildPhases

\* C15 witness: registry 1, target 3, no steps, both after-create batches: the
\* pass resolved with the registry at 3.
C15_Witness ==
  /\ FullRebuildPass /\ pc = "resolved" /\ current = 1 /\ Target = 3
  /\ Len(ddlOption.afterCreateTxn) > 0 /\ Len(ddlOption.afterCreateNoTxn) > 0
  /\ regVersion = 3

BootstrapRank(p) ==
  CASE p = "bs_before" -> 1
    [] p = "bs_create" -> 2
    [] p = "bs_afterTxn" -> 3
    [] p = "bs_afterNoTxn" -> 4
    [] OTHER -> 5

\* C16: bootstrap commits beforeCreateNoTxn, the table creation, afterCreateTxn,
\* afterCreateNoTxn and the version write in that order, and the creation is in
\* the transaction of afterCreateTxn: while that batch has not committed, and
\* after it has failed, the table does not exist.
C16_BootstrapOneTransaction ==
  /\ \A i, j \in 1..Len(log) :
       (i < j /\ log[i].ph \in BootstrapPhases /\ log[j].ph \in BootstrapPhases)
         => BootstrapRank(log[i].ph) <= BootstrapRank(log[j].ph)
  /\ pc = "bs_afterTxn" => Len(tblCols) = 0
  /\ (pc = "rejected" /\ failedAt.ph = "bs_afterTxn") => Len(tblCols) = 0

\* C17: the statements of a rebuild are one transaction: no step of a rebuild
\* other than its commit changes the table, and none leaves a shadow table; when
\* a rebuild fails, at whatever statement, the original table is there with its
\* columns and rows and there is no shadow table.
C17_RebuildAtomic ==
  [][(pc \in RebuildPhases) =>
       /\ tmpCols' = <<>>
       /\ RebuildCommitted \/ (tblCols' = tblCols /\ tblRows' = tblRows)
       /\ pc' = "rejected" =>
            (Len(tblCols') > 0 /\ tblCols' = tblCols /\ tblRows' = tblRows)
    ]_vars

\* C17 witness: a rebuild of a table with a row failed at the rename, after the
\* drop: the table is as the pass found it and has its row.
C17_Witness ==
  /\ pc = "rejected" /\ failedAt.ph \in RebuildPhases /\ failedAt.st = "rename"
  /\ tblCols = legacyCols /\ Len(tblRows) > 0 /\ tmpCols = <<>>

\* C18: when the transactional batch of a migration step fails, the table has
\* the columns and the rows it had when the Migration Runner began that step.
C18_TxnFailureLeavesTable ==
  (pc = "rejected" /\ failedAt.ph = "st_txn")
    => (tblCols = stepBase.cols /\ tblRows = stepBase.rows)

\* the chain rejected in reconcileSchema
ReconcileFailed ==
  /\ pc = "rejected"
  /\ failedAt.ph \notin {"none", "openDatabase", "ensureMeta", "onEveryOpen"}

\* C19: an open() call on the instance whose chain rejected in reconcileSchema
\* starts the chain again, so that reconcileSchema runs again: no such call
\* returns without doing so.
C19_RetryReconciles ==
  [][(ReconcileFailed /\ lastReturn' # lastReturn /\ pc' # "dead")
       => pc' = "openDatabase"]_vars

\* C20: the statements one instance commits during a pass are not separated by
\* a statement another instance on the same store file commits: when the
\* running instance commits a statement after the first one of its pass, the
\* statement committed before it was its own.
C20_NoInterleavedReconcile ==
  [][(Len(log') = Len(log) + 1 /\ Len(log) > 0) => lastWriter = running]_vars

\* a pass that resolved after an unmanaged create, a bootstrap, a legacy
\* adoption, a stepwise migration or a full rebuild
ReconciledPass ==
  /\ pc = "resolved"
  /\ \/ \E i \in 1..Len(log) :
          log[i].ph \in CreatePhases \cup RebuildPhases \cup SetVersionPhases
     \/ ddlOption # NoPlan /\ current = 0 /\ Len(legacyCols) > 0

\* C21: after every pass that resolved as an unmanaged create, a bootstrap, a
\* legacy adoption, a stepwise migration or a full rebuild, the table has the
\* reserved key row_id as its first column, and row_id is not a declared column.
C21_IdentityFirst ==
  ReconciledPass =>
    /\ Len(tblCols) > 0
    /\ tblCols[1] = RowId
    /\ RowId \notin Range(columns)

\* the statements of the onEveryOpen batch, as the chain commits them
OnEveryOpenEvents ==
  [i \in 1..Len(ddlOption.onEveryOpen) |-> [ph |-> "onEveryOpen", v |-> 0, i |-> i]]

\* the chain ran ensureMeta, then the whole onEveryOpen batch once, then
\* reconcileSchema to its end
ChainRanInOrder ==
  /\ pc = "resolved"
  /\ regMeta
  /\ Len(log) >= Len(OnEveryOpenEvents)
  /\ SubSeq(log, 1, Len(OnEveryOpenEvents)) = OnEveryOpenEvents
  /\ \A i \in 1..Len(log) : log[i].ph = "onEveryOpen" => i <= Len(OnEveryOpenEvents)

\* C22: for every connection the instance opens, ensureMeta, the onEveryOpen
\* batch and reconcileSchema have each run once, in that order, when the chain
\* resolves, and no open() call resolves before they have; an open() call on
\* an instance that is already open runs nothing; the first open() call after
\* close() has closed the connection starts the chain again.
C22_OncePerConnectionOpen ==
  /\ [](pc = "resolved" => ChainRanInOrder)
  /\ [](lastReturn \notin {"preparing", "reconciling", "afterReject"})
  /\ [][(db /\ pc = "resolved" /\ lastReturn' # lastReturn /\ pc' # "dead")
          => UNCHANGED <<store, chain>>]_vars
  /\ [][(closeState = "resolved" /\ ~db /\ ~opening /\ closeState' = "none"
           /\ pc' # "dead")
          => pc' = "openDatabase"]_vars

\* C23: every call of ensureMeta that returns leaves the registry table and its
\* version index in place; a call that finds them leaves the registry's entry
\* and the table, its rows and the shadow table as they were; a call that
\* creates them leaves an empty registry and touches nothing else; a call that
\* fails changes nothing.
C23_EnsureMetaIdempotent ==
  [][(pc = "ensureMeta" /\ pc' # "dead")
       => /\ UNCHANGED <<tblCols, tblRows, tmpCols>>
          /\ pc' # "rejected" => regMeta'
          /\ pc' = "rejected" => UNCHANGED <<regMeta, regVersion>>
          /\ regMeta => regVersion' = regVersion
          /\ ~regMeta => regVersion' = 0]_vars

\* C23 witness: ensureMeta has run on a store whose registry already held an
\* entry for the table, and the pass has gone on to read that entry.
C23_Witness ==
  /\ pc = "getVersion" /\ regMeta /\ regVersion > 0 /\ Len(tblCols) > 0
  /\ Len(tblRows) > 0

\* the declaration names the reserved key: SQLite compares column names
\* without regard to letter case
DeclaresReservedKey(cols) == \E i \in 1..Len(cols) : toLowerCase(cols[i]) = RowId

\* C24: a constructor call that throws leaves no instance, no connection and
\* an untouched store; no instance exists whose column set is empty or names
\* the reserved key, so no store is opened or changed for such a declaration.
C24_ConfigurationErrorsFatal ==
  /\ failedAt.ph = "constructor" => (pc = "dead" /\ ~db /\ ~conn /\ ~opening)
  /\ pc # "dead" => (Len(columns) > 0 /\ ~DeclaresReservedKey(columns))

\* what the pass has committed for the step to version v, the version write apart
StepEvents(v) ==
  SelectSeq(log, LAMBDA e : e.v = v /\ e.ph \in StepPhases \ {"st_setVersion"})

\* the step to version v stands at phase p, statement i: what it has committed
\* is the start of what its declaration asks for, in the declared order, and p
\* is the phase of the first thing not yet committed
StepStandsAt(v, p, i) ==
  LET E == ExpectedEvents(v)
      k == Len(StepEvents(v))
  IN /\ k <= Len(E)
     /\ StepEvents(v) = SubSeq(E, 1, k)
     /\ IF k = Len(E) THEN p = "st_setVersion"
        ELSE E[k + 1].ph = p /\ (p \in NoTxnPhases => E[k + 1].i = i)

\* the step to version v failed after its rebuild had committed
FailedAfterRebuild ==
  /\ pc = "rejected"
  /\ failedAt.ph \in {"st_txn", "st_custom", "st_post", "st_setVersion"}
  /\ StepFor(failedAt.v).strategy = "rebuild"

\* C25: a declared step runs its phases in the order pre-phase batch, rebuild
\* (strategy 'rebuild' only), transactional batch, custom procedure, post-phase
\* batch, version write, each declared phase once; when a phase fails nothing
\* after it has run and the version is not written; what the statements of the
\* pre-phase and post-phase batches committed before the failure stays
\* committed, and so does the table the rebuild left.
C25_StepPhaseOrder ==
  /\ pc \in StepPhases => StepStandsAt(cur + 1, pc, idx)
  /\ (pc = "rejected" /\ failedAt.ph \in StepPhases)
       => /\ StepStandsAt(failedAt.v, failedAt.ph, failedAt.i)
          /\ \A j \in 1..Len(log) : log[j].v < failedAt.v \/ log[j] \in Range(StepEvents(failedAt.v))
          /\ regVersion = failedAt.v - 1
  /\ FailedAfterRebuild
       => /\ tblCols = TableDefs(columns)
          /\ tblRows = RebuildRows(stepBase.cols, stepBase.rows, columns)

\* C25 witness: the second statement of the post-phase batch of a step failed
\* after the step's rebuild had changed the layout of the table, its
\* transactional batch and its custom procedure had run.
C25_Witness ==
  /\ FailedAfterRebuild /\ failedAt.ph = "st_post" /\ failedAt.i = 2
  /\ tblCols # stepBase.cols /\ Len(tblRows) > 0
  /\ \E j \in 1..Len(log) : log[j] = [ph |-> "st_post", v |-> failedAt.v, i |-> 1]
  /\ \E j \in 1..Len(log) : log[j] = [ph |-> "st_custom", v |-> failedAt.v, i |-> 0]

\* everything but the registry entry of the other table
BesideOther ==
  <<tblCols, tblRows, tmpCols, regVersion, regMeta, instance, chain, callers, peers, link>>

\* C26: getTableVersion returns the version the registry holds under the
\* table's own name, 0 without an entry, whatever it holds for another table;
\* a committed setTableVersion leaves the table's entry at the version written
\* and the other table's entry as it was; no step of a pass of one table
\* changes the entry of the other, and a version written for the other table
\* leaves this table's entry as it was.
C26_RegistryPerTable ==
  /\ [][(pc = "getVersion" /\ pc' \notin {"getVersion", "rejected", "dead"})
          => current' = regVersion]_vars
  /\ [][(pc \in SetVersionPhases /\ Len(log') = Len(log) + 1)
          => (regVersion' = VersionToWrite(pc, cur) /\ regOther' = regOther)]_vars
  /\ [][(BesideOther' # BesideOther) => regOther' = regOther]_vars
  /\ [][(regOther' # regOther) => regVersion' = regVersion]_vars

\* C26 witness: a pass has written and then a later pass has read the table's
\* version while the registry held a different version for another table.
C26_Witness ==
  /\ pc = "resolved" /\ current > 0 /\ regVersion = Target /\ current < Target
  /\ regOther > 0 /\ regOther # regVersion /\ regOther # current
  /\ \E i \in 1..Len(log) : log[i].ph \in SetVersionPhases

\* reconcileSchema is about to read a registry version at or above the target
\* of the plan
SteadyState ==
  pc = "getVersion" /\ ddlOption # NoPlan /\ regVersion >= Target

\* C27: with a plan and a registry version at or above the plan's target,
\* reconcileSchema returns right after reading the version: it commits no
\* create, rebuild, after-create batch or migration step and leaves the table,
\* its rows and the registry as they were; every pass with a plan that
\* resolves leaves the registry at or above the target, so the next pass with
\* the same declaration is such a pass.
C27_SteadyStateNoOp ==
  /\ [][(SteadyState /\ pc' \notin {"getVersion", "rejected", "dead"})
          => (pc' = "resolved" /\ log' = log /\ UNCHANGED store)]_vars
  /\ []((pc = "resolved" /\ ddlOption # NoPlan /\ current >= Target)
          => \A i \in 1..Len(log) : log[i].ph = "onEveryOpen")
  /\ []((pc = "resolved" /\ ddlOption # NoPlan) => regVersion >= Target)

\* C27 witness: a pass with a plan found a registry version above its target
\* and resolved with the rows of the table still there.
C27_Witness ==
  /\ pc = "resolved" /\ ddlOption # NoPlan /\ current > Target
  /\ ddlOption.migrationSteps # {}
  /\ regVersion = current /\ Len(tblRows) > 0
  /\ log = OnEveryOpenEvents /\ Len(log) > 0

\* how many times the pass has committed a phase of the set P (for a batch
\* outside a transaction: its first statement)
TimesRun(P) ==
  Cardinality({i \in 1..Len(log) : log[i].ph \in P /\ log[i].i <= 1})

\* C28: a pass commits each after-create batch at most once, and when it has
\* resolved it has committed at most one rebuild for each version by which it
\* advanced the registry.
C28_AtMostOncePerPass ==
  /\ TimesRun({"bs_afterTxn", "lg_afterTxn", "fr_afterTxn"}) <= 1
  /\ TimesRun({"bs_afterNoTxn", "lg_afterNoTxn", "fr_afterNoTxn"}) <= 1
  /\ pc = "resolved" => TimesRun(RebuildPhases) <= regVersion - current

\* the phases in which the chain hands a statement of reconcileSchema to the driver
ReconcilePhases ==
  ((NoTxnPhases \cup TxnPhases) \ {"onEveryOpen"}) \cup CreatePhases \cup RebuildPhases
    \cup SetVersionPhases \cup {"um_getCols", "z_getCols", "getVersion", "st_custom"}

\* the chain takes a step of reconcileSchema
ReconcileStatement ==
  /\ pc \in ReconcilePhases
  /\ pc' \notin {"dead", "openDatabase"}
  /\ <<pc, idx, tx>>' # <<pc, idx, tx>>

\* C29: once close() has returned and open() has not been called since, the
\* instance holds no handle and no open connection; no statement of
\* reconcileSchema is issued on a connection close() has closed; the chain of
\* an earlier open() does not clear this.opening while the chain of a later
\* open() is in flight, and this.opening is set while openDatabase is in
\* flight.
C29_CloseSafeAgainstOpen ==
  /\ [](closeState = "resolved" => (~db /\ ~conn))
  /\ [][ReconcileStatement => conn]_vars
  /\ [][(orphan /\ ~orphan' /\ pc' # "dead") => (pc \in Settled \/ ~opening)]_vars
  /\ [](pc = "openDatabase" => opening)

\* the Migration Runner's iterations in this pass: the versions it has written
RunnerIterations ==
  Cardinality({i \in 1..Len(log) : log[i].ph \in {"st_setVersion", "ms_setVersion"}})

\* the iterations the Migration Runner may take from the version read
IterationBound == IF current < Target THEN Target - current ELSE 0

\* C30 as stated: a pass that resolves has run at most target - current
\* iterations of the Migration Runner and left the registry at or above the
\* target; under repeated fresh opens, whatever the registry version was at
\* first, it eventually equals the target and stays there.
C30_AsStated ==
  /\ [](pc = "resolved" => (RunnerIterations <= IterationBound /\ regVersion >= Target))
  /\ <>[](ddlOption # NoPlan /\ regVersion = Target)

\* the chain of open() is between openDatabase and its settling
InFlight == pc \notin Settled \cup {"dead", "idle"}

\* C30: a pass that resolves has left the registry at or above the target and
\* has run at most target - current iterations of the Migration Runner, none
\* when the registry was at or above the target already; a pass in flight
\* settles; under repeated fresh opens with the same declaration, in which
\* statements fail finitely often, a registry version at or below the target
\* comes to equal the target and stays there, never passing it on the way,
\* and a registry version above the target stays what it is.
C30_Convergence ==
  /\ [](pc = "resolved"
          => /\ regVersion >= Target
             /\ RunnerIterations <= IterationBound)
  /\ InFlight ~> (pc \in {"resolved", "rejected"})
  /\ (pc = "idle" /\ regVersion <= Target) ~> [](regVersion = Target)
  /\ [][(pc # "dead" /\ regVersion < Target) => regVersion' <= Target]_vars
  /\ [][(pc # "dead" /\ regVersion >= Target) => regVersion' = regVersion]_vars

\* C30 witness: after two failed passes a pass resolved, the Migration Runner
\* having taken the registry from a positive version to the target.
C30_Witness ==
  /\ pc = "resolved" /\ budget = 0
  /\ current > 0 /\ current < Target /\ regVersion = Target
  /\ RunnerIterations = Target - current

====
